---- MODULE Spec2Model ----
(***************************************************************************)
(* Leader / Follower state replication of lf-rs (src/src/lib.rs).          *)
(*                                                                         *)
(* One Leader owns the canonical State (snapshot, seq) and a Vec of mpsc   *)
(* Senders.  Followers own a replica, the Receiver of their subscription,  *)
(* their own Vec of Senders (relay children) and a Vec of waiters.         *)
(* Every public method is one action; refresh_blocking is split at its     *)
(* only suspension point, the blocking recv().                             *)
(*                                                                         *)
(* A channel is identified with the Follower that owns its Receiver.  Its  *)
(* Sender lives in the parent's subscribers Vec, so the Sender is alive    *)
(* exactly while the parent is alive and still lists the child.            *)
(***************************************************************************)
EXTENDS Integers, Sequences, FiniteSets, TLC

\* ---------------------------------------------------------------- bounds
MaxFollowers == 2
MaxSeq == 2
MaxVal == 1
MaxSignals == 2
MaxReaders == 2
MaxApplies == 2

Followers == 1..MaxFollowers
Vals == 0..MaxVal
Signals == 1..MaxSignals
LeaderId == 0
Readers == 1..MaxReaders
Slots == {0, 1}

\* the state the Leader is constructed with (Leader::new(420) in the tests)
InitState == 0

VARIABLES
    lstate,     \* Leader.state.snapshot
    lseq,       \* Leader.state.seq
    lsubs,      \* Leader.subscribers (Vec of Senders, by child id)
    lalive,     \* FALSE once the Leader has been dropped
    status,     \* per Follower: "none" (not created), "alive", "dropped"
    parent,     \* per Follower: who holds the Sender of its subscription
    fstate,     \* Follower.state.snapshot
    fseq,       \* Follower.state.seq
    chan,       \* Follower.subscription: queued (update, seq) messages
    fsubs,      \* Follower.subscribers
    waiters,    \* Follower.waiters: Vec of (pulse, seq), pulse by signal id
    pc,         \* "idle", or "blocked" inside refresh_blocking's recv()
    nsig,       \* number of pulse::Signal::new() calls so far
    pulses,     \* per signal: how many times its Pulse was pulsed
    lapplied,   \* history: the (update, seq) pairs the Leader applied
    applied,    \* history: the (update, seq) pairs each Follower applied
    start,      \* history: the State each Follower was constructed with, and
                \* the Leader's seq at that moment
    refreshed,  \* history: refresh() ran since the Leader's latest update
    last,       \* the call that returned last and what it returned
    slot,       \* double buffer: the two state slots, a State of two fields
    active,     \* double buffer: the flag naming the slot readers are sent to
    wlock,      \* per slot: the write lock is held
    readers,    \* per slot: the readers holding its read lock
    wpc,        \* the writer's position inside apply()
    wpass,      \* the writer's pass: 1 before the flip, 2 after it
    wupd,       \* the update the writer is applying
    rpc,        \* per reader: its position inside read()
    rslot,      \* per reader: the slot the flag sent it to
    robs,       \* per reader: the value its latest read() saw
    rspan,      \* history: per reader, the index into dbvals of the value
                \* committed when its read() began and when it got its lock
    dbvals      \* history: the initial value and the result of every apply()

\* the Leader, its Followers and their history
lfvars == <<lstate, lseq, lsubs, lalive, status, parent, fstate, fseq, chan,
            fsubs, waiters, pc, nsig, pulses, lapplied, applied, start,
            refreshed, last>>

\* the double buffer, its writer, its readers and their history
dbvars == <<slot, active, wlock, readers, wpc, wpass, wupd, rpc, rslot, robs,
            rspan, dbvals>>

vars == <<lfvars, dbvars>>

\* ------------------------------------------------------------- helpers
Range(s) == {s[i] : i \in 1..Len(s)}

\* Vec::remove(i), 1-based
RemoveAt(s, i) == SubSeq(s, 1, i - 1) \o SubSeq(s, i + 1, Len(s))

\* a returned call: n is the seq an update returned, the child a follow
\* created, the signal a signal_at created, or the number of updates a
\* refresh applied; pruned and pulsed count the Senders it removed and the
\* Pulses it pulsed
Call(op, f, ret, n, pruned, pulsed) ==
    [op |-> op, f |-> f, ret |-> ret, n |-> n, pruned |-> pruned,
     pulsed |-> pulsed]

\* impl<S: Copy> Update<S> for S: applying overwrites the target
UpdApply(update, target) == update

\* mpsc::Sender::send fails iff the Receiver has been dropped
RecvAlive(c) == status[c] = "alive"

\* mutant: the upstream counts as connected for as long as the Leader lives
TxAliveLeader(c) == lalive

\* the Sender of c's subscription still exists
TxAlive(c) ==
    IF parent[c] = LeaderId
    THEN lalive /\ c \in Range(lsubs)
    ELSE status[parent[c]] = "alive" /\ c \in Range(fsubs[parent[c]])

\* mutant: an empty queue is always reported as Empty
TryRecvErrEmpty(c) == "Empty"

\* mpsc::Receiver::try_recv on an empty queue
TryRecvErr(c) == IF TxAlive(c) THEN "Empty" ELSE "Disconnected"

\* mutant: the message is stamped one past the sender's seq
StampedNext(update, seq) == <<update, seq + 1>>

\* (update.clone(), self.state.seq): the message sent to a subscriber
Stamped(update, seq) == <<update, seq>>

\* mutant: removal while iterating forward, which skips the element that
\* slides into the removed slot
RECURSIVE BroadcastFwdFrom(_, _, _, _)
BroadcastFwdFrom(i, subs, ch, msg) ==
    IF i > Len(subs) THEN [subs |-> subs, chan |-> ch]
    ELSE IF RecvAlive(subs[i])
         THEN BroadcastFwdFrom(i + 1, subs,
                               [ch EXCEPT ![subs[i]] = Append(@, msg)], msg)
         ELSE BroadcastFwdFrom(i + 1, RemoveAt(subs, i), ch, msg)

BroadcastFwd(i, subs, ch, msg) == BroadcastFwdFrom(1, subs, ch, msg)

\* mutant: a transport that hands the newest message out first
RECURSIVE BroadcastLifo(_, _, _, _)
BroadcastLifo(i, subs, ch, msg) ==
    IF i = 0 THEN [subs |-> subs, chan |-> ch]
    ELSE IF RecvAlive(subs[i])
         THEN BroadcastLifo(i - 1, subs,
                            [ch EXCEPT ![subs[i]] = <<msg>> \o @], msg)
         ELSE BroadcastLifo(i - 1, RemoveAt(subs, i), ch, msg)

\* for i in (0..subscribers.len()).rev() { if send fails { remove(i) } }
RECURSIVE Broadcast(_, _, _, _)
Broadcast(i, subs, ch, msg) ==
    IF i = 0 THEN [subs |-> subs, chan |-> ch]
    ELSE IF RecvAlive(subs[i])
         THEN Broadcast(i - 1, subs, [ch EXCEPT ![subs[i]] = Append(@, msg)], msg)
         ELSE Broadcast(i - 1, RemoveAt(subs, i), ch, msg)

\* mutant: a waiter is released one update early
RECURSIVE CheckWaitersEarly(_, _, _, _)
CheckWaitersEarly(i, ws, ps, seq) ==
    IF i = 0 THEN [waiters |-> ws, pulses |-> ps]
    ELSE IF ws[i][2] <= seq + 1
         THEN CheckWaitersEarly(i - 1, RemoveAt(ws, i),
                                [ps EXCEPT ![ws[i][1]] = @ + 1], seq)
         ELSE CheckWaitersEarly(i - 1, ws, ps, seq)

\* mutant: the pass stops at the first waiter it releases
RECURSIVE CheckWaitersOne(_, _, _, _)
CheckWaitersOne(i, ws, ps, seq) ==
    IF i = 0 THEN [waiters |-> ws, pulses |-> ps]
    ELSE IF ws[i][2] <= seq
         THEN [waiters |-> RemoveAt(ws, i),
               pulses |-> [ps EXCEPT ![ws[i][1]] = @ + 1]]
         ELSE CheckWaitersOne(i - 1, ws, ps, seq)

\* Follower::check_waiters
RECURSIVE CheckWaiters(_, _, _, _)
CheckWaiters(i, ws, ps, seq) ==
    IF i = 0 THEN [waiters |-> ws, pulses |-> ps]
    ELSE IF ws[i][2] <= seq
         THEN CheckWaiters(i - 1, RemoveAt(ws, i),
                           [ps EXCEPT ![ws[i][1]] = @ + 1], seq)
         ELSE CheckWaiters(i - 1, ws, ps, seq)

\* the part of the state a Follower's apply can touch
World ==
    [fstate |-> fstate, fseq |-> fseq, chan |-> chan, fsubs |-> fsubs,
     waiters |-> waiters, pulses |-> pulses, applied |-> applied,
     pruned |-> 0, pulsed |-> 0]

\* mutant: apply without the relay to the Follower's own subscribers
ApplyMsgNoRelay(w, f, msg) ==
    LET cw == CheckWaiters(Len(w.waiters[f]), w.waiters[f], w.pulses, msg[2])
    IN  [w EXCEPT !.fstate[f] = UpdApply(msg[1], @),
                  !.fseq[f] = msg[2],
                  !.waiters[f] = cw.waiters,
                  !.pulses = cw.pulses,
                  !.applied[f] = Append(@, msg),
                  !.pulsed = @ + (Len(w.waiters[f]) - Len(cw.waiters))]

\* Follower::apply
ApplyMsg(w, f, msg) ==
    LET b  == Broadcast(Len(w.fsubs[f]), w.fsubs[f], w.chan,
                        Stamped(msg[1], msg[2]))
        cw == CheckWaiters(Len(w.waiters[f]), w.waiters[f], w.pulses, msg[2])
    IN  [fstate  |-> [w.fstate EXCEPT ![f] = UpdApply(msg[1], @)],
         fseq    |-> [w.fseq EXCEPT ![f] = msg[2]],
         chan    |-> b.chan,
         fsubs   |-> [w.fsubs EXCEPT ![f] = b.subs],
         waiters |-> [w.waiters EXCEPT ![f] = cw.waiters],
         pulses  |-> cw.pulses,
         applied |-> [w.applied EXCEPT ![f] = Append(@, msg)],
         pruned  |-> w.pruned + (Len(w.fsubs[f]) - Len(b.subs)),
         pulsed  |-> w.pulsed + (Len(w.waiters[f]) - Len(cw.waiters))]

\* recv()/try_recv() returned Ok: the head leaves the queue and is applied
RecvApply(w, f) ==
    ApplyMsg([w EXCEPT !.chan[f] = Tail(@)], f, Head(w.chan[f]))

\* mutant: refresh applies one queued update and returns
RefreshLoopOnce(w, f) ==
    IF w.chan[f] # <<>> THEN RecvApply(w, f) ELSE w

\* mutant: a disconnected upstream is reported before the queue is drained
RECURSIVE RefreshLoopDiscFirst(_, _)
RefreshLoopDiscFirst(w, f) ==
    IF ~TxAlive(f) THEN w
    ELSE IF w.chan[f] # <<>> THEN RefreshLoopDiscFirst(RecvApply(w, f), f)
         ELSE w

\* the loop of Follower::refresh
RECURSIVE RefreshLoop(_, _)
RefreshLoop(w, f) ==
    IF w.chan[f] # <<>> THEN RefreshLoop(RecvApply(w, f), f) ELSE w

SetWorld(w) ==
    /\ fstate' = w.fstate
    /\ fseq' = w.fseq
    /\ chan' = w.chan
    /\ fsubs' = w.fsubs
    /\ waiters' = w.waiters
    /\ pulses' = w.pulses
    /\ applied' = w.applied

\* number of updates f has applied between the current state and world w
Applied(w, f) == Len(w.applied[f]) - Len(applied[f])

\* -------------------------------------------------------------- Init
Init ==
    /\ lstate = InitState
    /\ lseq = 0
    /\ lsubs = <<>>
    /\ lalive = TRUE
    /\ status = [f \in Followers |-> "none"]
    /\ parent = [f \in Followers |-> LeaderId]
    /\ fstate = [f \in Followers |-> InitState]
    /\ fseq = [f \in Followers |-> 0]
    /\ chan = [f \in Followers |-> <<>>]
    /\ fsubs = [f \in Followers |-> <<>>]
    /\ waiters = [f \in Followers |-> <<>>]
    /\ pc = [f \in Followers |-> "idle"]
    /\ nsig = 0
    /\ pulses = [s \in Signals |-> 0]
    /\ lapplied = <<>>
    /\ applied = [f \in Followers |-> <<>>]
    /\ start = [f \in Followers |-> <<InitState, 0, 0>>]
    /\ refreshed = [f \in Followers |-> FALSE]
    /\ last = Call("new", LeaderId, "ok", 0, 0, 0)
    /\ slot = [i \in Slots |-> <<InitState, InitState>>]
    /\ active = 0
    /\ wlock = [i \in Slots |-> FALSE]
    /\ readers = [i \in Slots |-> {}]
    /\ wpc = "idle"
    /\ wpass = 1
    /\ wupd = InitState
    /\ rpc = [r \in Readers |-> "idle"]
    /\ rslot = [r \in Readers |-> 0]
    /\ robs = [r \in Readers |-> <<InitState, InitState>>]
    /\ rspan = [r \in Readers |-> <<1, 1>>]
    /\ dbvals = << <<InitState, InitState>> >>

\* ------------------------------------------------------------ actions
Idle(f) == status[f] = "alive" /\ pc[f] = "idle"

\* mutant: the Leader writes the new state into its subscribers' replicas
LeaderUpdateShared(u) ==
    /\ lalive
    /\ lseq < MaxSeq
    /\ LET b == Broadcast(Len(lsubs), lsubs, chan, Stamped(u, lseq + 1))
       IN  /\ lstate' = UpdApply(u, lstate)
           /\ lseq' = lseq + 1
           /\ lsubs' = b.subs
           /\ chan' = b.chan
           /\ lapplied' = Append(lapplied, <<u, lseq + 1>>)
           /\ fstate' = [f \in Followers |->
                            IF f \in Range(b.subs) THEN UpdApply(u, fstate[f])
                            ELSE fstate[f]]
           /\ last' = Call("update", LeaderId, "seq", lseq + 1,
                           Len(lsubs) - Len(b.subs), 0)
    /\ refreshed' = [f \in Followers |-> FALSE]
    /\ UNCHANGED <<lalive, status, parent, fseq, fsubs, waiters, pc,
                   nsig, pulses, applied, start>>
    /\ UNCHANGED dbvars

\* Leader::update
LeaderUpdate(u) ==
    /\ lalive
    /\ lseq < MaxSeq
    /\ LET b == Broadcast(Len(lsubs), lsubs, chan, Stamped(u, lseq + 1))
       IN  /\ lstate' = UpdApply(u, lstate)
           /\ lseq' = lseq + 1
           /\ lsubs' = b.subs
           /\ chan' = b.chan
           /\ lapplied' = Append(lapplied, <<u, lseq + 1>>)
           /\ last' = Call("update", LeaderId, "seq", lseq + 1,
                           Len(lsubs) - Len(b.subs), 0)
    /\ refreshed' = [f \in Followers |-> FALSE]
    /\ UNCHANGED <<lalive, status, parent, fstate, fseq, fsubs, waiters, pc,
                   nsig, pulses, applied, start>>
    /\ UNCHANGED dbvars

\* mutant: the child starts from the initial State, not the parent's
NewFollowerStale(c, p, snapshot, seq) ==
    /\ status' = [status EXCEPT ![c] = "alive"]
    /\ parent' = [parent EXCEPT ![c] = p]
    /\ fstate' = [fstate EXCEPT ![c] = InitState]
    /\ fseq' = [fseq EXCEPT ![c] = 0]
    /\ start' = [start EXCEPT ![c] = <<InitState, 0, lseq>>]
    /\ last' = Call("follow", p, "follower", c, 0, 0)

\* Follower::new for the child c of a follow() call
NewFollower(c, p, snapshot, seq) ==
    /\ status' = [status EXCEPT ![c] = "alive"]
    /\ parent' = [parent EXCEPT ![c] = p]
    /\ fstate' = [fstate EXCEPT ![c] = snapshot]
    /\ fseq' = [fseq EXCEPT ![c] = seq]
    /\ start' = [start EXCEPT ![c] = <<snapshot, seq, lseq>>]
    /\ last' = Call("follow", p, "follower", c, 0, 0)

\* the Follower a follow() call creates
Fresh(c) == status[c] = "none" /\ \A d \in Followers : d < c => status[d] # "none"

\* Leader::follow
LeaderFollow ==
    /\ lalive
    /\ \E c \in Followers :
        /\ Fresh(c)
        /\ lsubs' = Append(lsubs, c)
        /\ NewFollower(c, LeaderId, lstate, lseq)
    /\ UNCHANGED <<lstate, lseq, lalive, chan, fsubs, waiters, pc, nsig,
                   pulses, lapplied, applied, refreshed>>
    /\ UNCHANGED dbvars

\* Follower::follow
FollowerFollow(p) ==
    /\ Idle(p)
    /\ \E c \in Followers :
        /\ Fresh(c)
        /\ fsubs' = [fsubs EXCEPT ![p] = Append(@, c)]
        /\ NewFollower(c, p, fstate[p], fseq[p])
    /\ UNCHANGED <<lstate, lseq, lsubs, lalive, chan, waiters, pc, nsig,
                   pulses, lapplied, applied, refreshed>>
    /\ UNCHANGED dbvars

\* Follower::refresh
Refresh(f) ==
    /\ Idle(f)
    /\ LET w == RefreshLoop(World, f)
       IN  /\ SetWorld(w)
           /\ last' = Call("refresh", f, TryRecvErr(f), Applied(w, f),
                           w.pruned, w.pulsed)
    /\ refreshed' = [refreshed EXCEPT ![f] = TRUE]
    /\ UNCHANGED <<lstate, lseq, lsubs, lalive, status, parent, pc, nsig,
                   lapplied, start>>
    /\ UNCHANGED dbvars

\* mutant: refresh_blocking succeeds whenever it applied an update
RefreshBlockingReturnOk(f) ==
    \/ /\ chan[f] # <<>>
       /\ LET w == RefreshLoop(RecvApply(World, f), f)
          IN  /\ SetWorld(w)
              /\ last' = Call("refresh_blocking", f, "Ok", Applied(w, f),
                              w.pruned, w.pulsed)
       /\ refreshed' = [refreshed EXCEPT ![f] = TRUE]
    \/ /\ chan[f] = <<>>
       /\ ~TxAlive(f)
       /\ last' = Call("refresh_blocking", f, "Err", 0, 0, 0)
       /\ UNCHANGED <<fstate, fseq, chan, fsubs, waiters, pulses, applied,
                      refreshed>>

\* Follower::refresh_blocking from the point where recv() returns
RefreshBlockingReturn(f) ==
    \/ /\ chan[f] # <<>>
       /\ LET w == RefreshLoop(RecvApply(World, f), f)
          IN  /\ SetWorld(w)
              /\ last' = Call("refresh_blocking", f,
                              IF TryRecvErr(f) = "Disconnected" THEN "Err" ELSE "Ok",
                              Applied(w, f), w.pruned, w.pulsed)
       /\ refreshed' = [refreshed EXCEPT ![f] = TRUE]
    \/ /\ chan[f] = <<>>
       /\ ~TxAlive(f)
       /\ last' = Call("refresh_blocking", f, "Err", 0, 0, 0)
       /\ UNCHANGED <<fstate, fseq, chan, fsubs, waiters, pulses, applied,
                      refreshed>>

\* mutant: try_recv in place of recv, the call never waits
RefreshBlockingNoWait(f) ==
    /\ Idle(f)
    /\ \/ /\ RefreshBlockingReturn(f)
          /\ pc' = pc
       \/ /\ chan[f] = <<>>
          /\ TxAlive(f)
          /\ pc' = pc
          /\ last' = Call("refresh_blocking", f, "Ok", 0, 0, 0)
          /\ UNCHANGED <<fstate, fseq, chan, fsubs, waiters, pulses, applied,
                         refreshed>>
    /\ UNCHANGED <<lstate, lseq, lsubs, lalive, status, parent, nsig,
                   lapplied, start>>
    /\ UNCHANGED dbvars

\* Follower::refresh_blocking is called
RefreshBlocking(f) ==
    /\ Idle(f)
    /\ \/ /\ RefreshBlockingReturn(f)
          /\ pc' = pc
       \/ /\ chan[f] = <<>>
          /\ TxAlive(f)
          /\ pc' = [pc EXCEPT ![f] = "blocked"]
          /\ UNCHANGED <<fstate, fseq, chan, fsubs, waiters, pulses, applied,
                         refreshed, last>>
    /\ UNCHANGED <<lstate, lseq, lsubs, lalive, status, parent, nsig,
                   lapplied, start>>
    /\ UNCHANGED dbvars

\* the recv() a refresh_blocking call is blocked in returns
RefreshBlockingWake(f) ==
    /\ status[f] = "alive"
    /\ pc[f] = "blocked"
    /\ RefreshBlockingReturn(f)
    /\ pc' = [pc EXCEPT ![f] = "idle"]
    /\ UNCHANGED <<lstate, lseq, lsubs, lalive, status, parent, nsig,
                   lapplied, start>>
    /\ UNCHANGED dbvars

\* Follower::signal_at
SignalAt(f, n) ==
    /\ Idle(f)
    /\ nsig < MaxSignals
    /\ nsig' = nsig + 1
    /\ LET s  == nsig + 1
           ws == Append(waiters[f], <<s, n>>)
           cw == CheckWaiters(Len(ws), ws, pulses, fseq[f])
       IN  /\ waiters' = [waiters EXCEPT ![f] = cw.waiters]
           /\ pulses' = cw.pulses
           /\ last' = Call("signal_at", f, "signal", s, 0,
                           Len(ws) - Len(cw.waiters))
    /\ UNCHANGED <<lstate, lseq, lsubs, lalive, status, parent, fstate, fseq,
                   chan, fsubs, pc, lapplied, applied, start, refreshed>>
    /\ UNCHANGED dbvars

\* the Leader goes out of scope: its Senders are dropped with it
DropLeader ==
    /\ lalive
    /\ lalive' = FALSE
    /\ lsubs' = <<>>
    /\ last' = Call("drop", LeaderId, "ok", 0, 0, 0)
    /\ UNCHANGED <<lstate, lseq, status, parent, fstate, fseq, chan, fsubs,
                   waiters, pc, nsig, pulses, lapplied, applied, start,
                   refreshed>>
    /\ UNCHANGED dbvars

\* a Follower goes out of scope: its State, Receiver, Senders and waiters
\* are dropped with it
DropFollower(f) ==
    /\ Idle(f)
    /\ status' = [status EXCEPT ![f] = "dropped"]
    /\ parent' = [parent EXCEPT ![f] = LeaderId]
    /\ fstate' = [fstate EXCEPT ![f] = InitState]
    /\ fseq' = [fseq EXCEPT ![f] = 0]
    /\ chan' = [chan EXCEPT ![f] = <<>>]
    /\ fsubs' = [fsubs EXCEPT ![f] = <<>>]
    /\ waiters' = [waiters EXCEPT ![f] = <<>>]
    /\ applied' = [applied EXCEPT ![f] = <<>>]
    /\ start' = [start EXCEPT ![f] = <<InitState, 0, 0>>]
    /\ refreshed' = [refreshed EXCEPT ![f] = FALSE]
    /\ last' = Call("drop", f, "ok", 0, 0, 0)
    /\ UNCHANGED <<lstate, lseq, lsubs, lalive, pc, nsig, pulses, lapplied>>
    /\ UNCHANGED dbvars

Next ==
    \/ \E u \in Vals : LeaderUpdate(u)
    \/ LeaderFollow
    \/ \E p \in Followers : FollowerFollow(p)
    \/ \E f \in Followers : Refresh(f)
    \/ \E f \in Followers : RefreshBlocking(f)
    \/ \E f \in Followers : RefreshBlockingWake(f)
    \/ \E f \in Followers, n \in 1..MaxSeq : SignalAt(f, n)
    \/ DropLeader
    \/ \E f \in Followers : DropFollower(f)

Spec == Init /\ [][Next]_vars

\* ------------------------------------------------- transport capability
\* impl Sender for mpsc::Sender (transport/mpsc.rs): a send fails only when
\* the Receiver is gone, and From<mpsc::SendError> makes that Disconnected
MpscSend(c) == IF RecvAlive(c) THEN "ok" ELSE "disconnected"

\* SendMap::send (map.rs): the outcome of the wrapped Sender is passed on,
\* Disconnected with the input restored, Inner as it is; without a wrapped
\* Sender the send is Disconnected
SendMapSend(hasTx, inner) ==
    IF hasTx
    THEN CASE inner = "ok" -> "ok"
           [] inner = "disconnected" -> "disconnected"
           [] inner = "inner" -> "inner"
    ELSE "disconnected"

\* mutant: every failed send is taken for a disconnect and prunes
RECURSIVE TransportBroadcastPrune(_, _, _, _, _)
TransportBroadcastPrune(i, subs, ch, msg, faulty) ==
    IF i = 0 THEN [subs |-> subs, chan |-> ch, err |-> FALSE]
    ELSE LET o == SendMapSend(TRUE, IF subs[i] \in faulty THEN "inner"
                                    ELSE MpscSend(subs[i]))
         IN  IF o = "ok"
             THEN TransportBroadcastPrune(i - 1, subs,
                      [ch EXCEPT ![subs[i]] = Append(@, msg)], msg, faulty)
             ELSE TransportBroadcastPrune(i - 1, RemoveAt(subs, i), ch, msg, faulty)

\* the broadcast loop of update over Sender trait objects: Disconnected
\* prunes the subscriber, any other error ends the call
RECURSIVE TransportBroadcast(_, _, _, _, _)
TransportBroadcast(i, subs, ch, msg, faulty) ==
    IF i = 0 THEN [subs |-> subs, chan |-> ch, err |-> FALSE]
    ELSE LET o == SendMapSend(TRUE, IF subs[i] \in faulty THEN "inner"
                                    ELSE MpscSend(subs[i]))
         IN  CASE o = "ok" ->
                    TransportBroadcast(i - 1, subs,
                        [ch EXCEPT ![subs[i]] = Append(@, msg)], msg, faulty)
               [] o = "disconnected" ->
                    TransportBroadcast(i - 1, RemoveAt(subs, i), ch, msg, faulty)
               [] o = "inner" ->
                    [subs |-> subs, chan |-> ch, err |-> TRUE]

\* update of a Leader whose subscribers are Senders of the transport
\* capability; the transports of the subscribers in faulty fail with an
\* error that is not a disconnect
TransportUpdate(u, faulty) ==
    /\ lalive
    /\ lseq < MaxSeq
    /\ LET b == TransportBroadcast(Len(lsubs), lsubs, chan,
                                   Stamped(u, lseq + 1), faulty)
       IN  /\ lstate' = UpdApply(u, lstate)
           /\ lseq' = lseq + 1
           /\ lsubs' = b.subs
           /\ chan' = b.chan
           /\ lapplied' = Append(lapplied, <<u, lseq + 1>>)
           /\ last' = Call("update", LeaderId, IF b.err THEN "Err" ELSE "seq",
                           lseq + 1, Len(lsubs) - Len(b.subs), 0)
    /\ refreshed' = [f \in Followers |-> FALSE]
    /\ UNCHANGED <<lalive, status, parent, fstate, fseq, fsubs, waiters, pc,
                   nsig, pulses, applied, start>>
    /\ UNCHANGED dbvars

TransportNext ==
    \/ \E u \in Vals, faulty \in SUBSET Followers : TransportUpdate(u, faulty)
    \/ LeaderFollow
    \/ \E f \in Followers : Refresh(f)
    \/ \E f \in Followers : DropFollower(f)

TransportSpec == Init /\ [][TransportNext]_vars

\* ------------------------------------------------------ double buffer
\* the State of a slot has two fields, so that an apply in progress shows:
\* the update has reached the first field only
DbPartial(u, v) == <<UpdApply(u, v[1]), v[2]>>

\* the update has reached both fields
DbFull(u, v) == <<UpdApply(u, v[1]), UpdApply(u, v[2])>>

\* the value of the latest apply() that was called
DbLatest == dbvals[Len(dbvals)]

\* the slot the writer works on: the one the flag does not name
Inactive == 1 - active

\* apply(update) is called; there is one writer
ApplyBegin(u) ==
    /\ wpc = "idle"
    /\ Len(dbvals) <= MaxApplies
    /\ wpc' = "lock"
    /\ wpass' = 1
    /\ wupd' = u
    /\ dbvals' = Append(dbvals, DbFull(u, DbLatest))
    /\ UNCHANGED <<slot, active, wlock, readers, rpc, rslot, robs, rspan>>
    /\ UNCHANGED lfvars

\* the writer takes the write lock of the inactive slot, once no reader
\* holds its read lock
ApplyLock ==
    /\ wpc = "lock"
    /\ readers[Inactive] = {}
    /\ ~wlock[Inactive]
    /\ wlock' = [wlock EXCEPT ![Inactive] = TRUE]
    /\ wpc' = "mutate"
    /\ UNCHANGED <<slot, active, readers, wpass, wupd, rpc, rslot, robs,
                   rspan, dbvals>>
    /\ UNCHANGED lfvars

\* the writer mutates the locked slot in place: the mutation is under way
ApplyMutate ==
    /\ wpc = "mutate"
    /\ slot' = [slot EXCEPT ![Inactive] = DbPartial(wupd, @)]
    /\ wpc' = "finish"
    /\ UNCHANGED <<active, wlock, readers, wpass, wupd, rpc, rslot, robs,
                   rspan, dbvals>>
    /\ UNCHANGED lfvars

\* the mutation ends and the write lock is released; after the second
\* pass apply() returns
ApplyFinish ==
    /\ wpc = "finish"
    /\ slot' = [slot EXCEPT ![Inactive] = <<@[1], UpdApply(wupd, @[2])>>]
    /\ wlock' = [wlock EXCEPT ![Inactive] = FALSE]
    /\ wpc' = IF wpass = 1 THEN "flip" ELSE "idle"
    /\ UNCHANGED <<active, readers, wpass, wupd, rpc, rslot, robs, rspan,
                   dbvals>>
    /\ UNCHANGED lfvars

\* the writer flips the active flag and turns to the formerly active slot
ApplyFlip ==
    /\ wpc = "flip"
    /\ active' = 1 - active
    /\ wpass' = 2
    /\ wpc' = "lock"
    /\ UNCHANGED <<slot, wlock, readers, wupd, rpc, rslot, robs, rspan,
                   dbvals>>
    /\ UNCHANGED lfvars

\* read() is called: the reader loads the active flag
ReadLoad(r) ==
    /\ rpc[r] = "idle"
    /\ rpc' = [rpc EXCEPT ![r] = "loaded"]
    /\ rslot' = [rslot EXCEPT ![r] = active]
    /\ rspan' = [rspan EXCEPT ![r] =
                    IF wpc = "idle" THEN <<Len(dbvals), Len(dbvals)>>
                    ELSE <<Len(dbvals) - 1, Len(dbvals) - 1>>]
    /\ UNCHANGED <<slot, active, wlock, readers, wpc, wpass, wupd, robs,
                   dbvals>>
    /\ UNCHANGED lfvars

\* mutant: the reader looks at the slot without taking its read lock
ReadLockNoLock(r) ==
    /\ rpc[r] = "loaded"
    /\ readers' = [readers EXCEPT ![rslot[r]] = @ \cup {r}]
    /\ rpc' = [rpc EXCEPT ![r] = "reading"]
    /\ robs' = [robs EXCEPT ![r] = slot[rslot[r]]]
    /\ rspan' = [rspan EXCEPT ![r] = <<@[1], Len(dbvals)>>]
    /\ UNCHANGED <<slot, active, wlock, wpc, wpass, wupd, rslot, dbvals>>
    /\ UNCHANGED lfvars

\* the reader takes the read lock of the slot the flag sent it to, once
\* the write lock is free, and sees the slot's value
ReadLock(r) ==
    /\ rpc[r] = "loaded"
    /\ ~wlock[rslot[r]]
    /\ readers' = [readers EXCEPT ![rslot[r]] = @ \cup {r}]
    /\ rpc' = [rpc EXCEPT ![r] = "reading"]
    /\ robs' = [robs EXCEPT ![r] = slot[rslot[r]]]
    /\ rspan' = [rspan EXCEPT ![r] = <<@[1], Len(dbvals)>>]
    /\ UNCHANGED <<slot, active, wlock, wpc, wpass, wupd, rslot, dbvals>>
    /\ UNCHANGED lfvars

\* the read-locked view is dropped
ReadRelease(r) ==
    /\ rpc[r] = "reading"
    /\ readers' = [readers EXCEPT ![rslot[r]] = @ \ {r}]
    /\ rpc' = [rpc EXCEPT ![r] = "idle"]
    /\ UNCHANGED <<slot, active, wlock, wpc, wpass, wupd, rslot, robs, rspan,
                   dbvals>>
    /\ UNCHANGED lfvars

DbNext ==
    \/ \E u \in Vals : ApplyBegin(u)
    \/ ApplyLock
    \/ ApplyMutate
    \/ ApplyFinish
    \/ ApplyFlip
    \/ \E r \in Readers : ReadLoad(r)
    \/ \E r \in Readers : ReadLock(r)
    \/ \E r \in Readers : ReadRelease(r)

DbSpec == Init /\ [][DbNext]_vars

\* test_blocking: the Leader is driven (and dropped) by one thread while
\* Followers obtained from it call refresh_blocking on others
BlockingNext ==
    \/ \E u \in Vals : LeaderUpdate(u)
    \/ LeaderFollow
    \/ \E f \in Followers : RefreshBlocking(f)
    \/ \E f \in Followers : RefreshBlockingWake(f)
    \/ DropLeader

\* a recv() that a message or a disconnection can complete does complete:
\* the thread blocked in it is woken and scheduled
BlockingSpec ==
    /\ Init
    /\ [][BlockingNext]_vars
    /\ \A f \in Followers : WF_vars(RefreshBlockingWake(f))

TypeOK ==
    /\ lstate \in Vals
    /\ lseq \in 0..MaxSeq
    /\ lalive \in BOOLEAN
    /\ Range(lsubs) \subseteq Followers
    /\ nsig \in 0..MaxSignals
    /\ \A f \in Followers :
        /\ status[f] \in {"none", "alive", "dropped"}
        /\ parent[f] \in {LeaderId} \cup Followers
        /\ fstate[f] \in Vals
        /\ fseq[f] \in 0..MaxSeq
        /\ pc[f] \in {"idle", "blocked"}
        /\ Range(fsubs[f]) \subseteq Followers

\* ------------------------------------------------------------- claims
Alive(f) == status[f] = "alive"

\* a Follower obtained from Leader::follow
Direct(f) == Alive(f) /\ parent[f] = LeaderId

\* f's call of op is the call that returned last
Returned(op, f) == last.op = op /\ last.f = f

\* s is a contiguous run of t
IsRunOf(s, t) ==
    \E k \in 0..Len(t) :
        /\ k + Len(s) <= Len(t)
        /\ s = SubSeq(t, k + 1, k + Len(s))

\* the updates c's parent has applied
ParentLog(c) ==
    IF parent[c] = LeaderId THEN lapplied ELSE applied[parent[c]]

After(log, seq) == SelectSeq(log, LAMBDA m : m[2] > seq)

\* C1: when a refresh() of a Follower obtained from Leader::follow returns,
\* the Follower's replica equals the Leader's state and its seq equals the
\* Leader's seq (so this holds after each refresh of a Follower that
\* refreshes after every Leader update).
C1_RefreshCatchesUp ==
    \A f \in Followers :
        (Direct(f) /\ Returned("refresh", f))
            => (fstate[f] = lstate /\ fseq[f] = lseq)

C1_Witness ==
    \E f \in Followers :
        /\ Direct(f) /\ Returned("refresh", f)
        /\ last.n = 2
        /\ lseq = 2
        /\ lstate # InitState

\* C2: a Follower's replica and seq change only in a step that is this
\* Follower's own refresh()/refresh_blocking(); in particular a Leader
\* update leaves every Follower's replica and seq as they were.
C2_OnlyOwnRefreshMutates ==
    [][ /\ \A f \in Followers :
            (Alive(f) /\ Alive(f)' /\ <<fstate[f], fseq[f]>>' # <<fstate[f], fseq[f]>>)
                => /\ last'.op \in {"refresh", "refresh_blocking"}
                   /\ last'.f = f
        /\ (\E u \in Vals : LeaderUpdate(u))
                => (\A f \in Followers : Alive(f) =>
                        <<fstate[f], fseq[f]>>' = <<fstate[f], fseq[f]>>)
      ]_vars

C2_Witness ==
    \E f \in Followers :
        /\ Direct(f)
        /\ last.op = "update"
        /\ chan[f] # <<>>
        /\ fstate[f] # lstate
        /\ fseq[f] < lseq

\* C3 as stated: with F1 = L.follow() and F2 = F1.follow() both created
\* before the Leader's latest update, once each of F1 and F2 has called
\* refresh() after that update, in whichever order, both equal the Leader.
C3_RelayAnyOrder ==
    \A f1, f2 \in Followers :
        ( /\ Direct(f1) /\ Alive(f2) /\ parent[f2] = f1
          /\ start[f1][3] < lseq /\ start[f2][3] < lseq
          /\ refreshed[f1] /\ refreshed[f2] )
            => (fstate[f1] = lstate /\ fstate[f2] = lstate)

\* C3 as amended: when F2.refresh() returns and F1 has called refresh()
\* since the Leader's latest update (F1 refreshed first), F1 and F2 both
\* equal the Leader's state and seq.
C3_RelayInOrder ==
    \A f1, f2 \in Followers :
        ( /\ Direct(f1) /\ Alive(f2) /\ parent[f2] = f1
          /\ refreshed[f1]
          /\ Returned("refresh", f2) )
            => (fstate[f1] = lstate /\ fstate[f2] = lstate)

C3_Witness ==
    \E f1, f2 \in Followers :
        /\ Direct(f1) /\ Alive(f2) /\ parent[f2] = f1
        /\ start[f1][3] < lseq /\ start[f2][3] < lseq
        /\ refreshed[f1]
        /\ Returned("refresh", f2)
        /\ last.n >= 1
        /\ fstate[f2] # InitState

\* C4: a waiter pending in a Follower's waiters (its signal_at(n) was called
\* while seq < n) has its Pulse pulsed at most once; the step that pulses it
\* is this Follower's refresh()/refresh_blocking(), and that step applies the
\* update carrying seq n (seq < n before, seq >= n after); conversely the step
\* in which the Follower's seq reaches n pulses it.
C4_Waiter ==
    /\ [](\A s \in Signals : pulses[s] <= 1)
    /\ [][ \A f \in Followers : \A i \in 1..Len(waiters[f]) :
            LET s == waiters[f][i][1]
                n == waiters[f][i][2]
            IN  /\ fseq[f] < n
                /\ pulses[s] = 0
                /\ (pulses'[s] # 0) =>
                       /\ pulses'[s] = 1
                       /\ last'.op \in {"refresh", "refresh_blocking"}
                       /\ last'.f = f
                       /\ fseq'[f] >= n
                       /\ \E k \in 1..Len(applied'[f]) :
                            k > Len(applied[f]) /\ applied'[f][k][2] = n
                /\ (Alive(f)' /\ fseq'[f] >= n) => pulses'[s] = 1
         ]_vars

C4_Witness ==
    \E f \in Followers :
        /\ Alive(f)
        /\ last.op \in {"refresh", "refresh_blocking"}
        /\ last.f = f
        /\ last.pulsed >= 1
        /\ last.n = 2
        /\ waiters[f] = <<>>

\* C5: a Follower's seq never exceeds the Leader's seq, and no step
\* decreases the seq of a Follower.
C5_SeqMonotoneBounded ==
    /\ [](\A f \in Followers : fseq[f] <= lseq)
    /\ [][ \A f \in Followers :
            (Alive(f) /\ Alive(f)') => fseq'[f] >= fseq[f] ]_vars

C5_Witness ==
    \E f, g \in Followers :
        /\ Direct(f) /\ Alive(g) /\ parent[g] = f
        /\ fseq[g] = 2
        /\ Len(applied[g]) = 2

\* C6: the updates a Follower has applied, at any relay depth, are a
\* contiguous run of the updates the Leader applied, in the Leader's order.
C6_LeaderOrder ==
    \A f \in Followers : Alive(f) => IsRunOf(applied[f], lapplied)

C6_Witness ==
    \E f \in Followers :
        /\ Alive(f) /\ parent[f] # LeaderId
        /\ Len(applied[f]) = 2
        /\ applied[f][1][1] # applied[f][2][1]

\* C7: the Follower a follow() call creates starts with the parent's state
\* and seq of that moment and an empty channel; from then on, while it and
\* its parent are alive, the updates it has applied followed by those queued
\* in its channel are exactly the updates the parent applied after the
\* follow call.
C7_Follow ==
    /\ [](\A c \in Followers :
            (Alive(c) /\ (parent[c] = LeaderId \/ Alive(parent[c])))
                => applied[c] \o chan[c] = After(ParentLog(c), start[c][2]))
    /\ [][ \A c \in Followers :
            (status[c] = "none" /\ Alive(c)') =>
                /\ fstate'[c] = IF parent'[c] = LeaderId THEN lstate
                                ELSE fstate[parent'[c]]
                /\ fseq'[c] = IF parent'[c] = LeaderId THEN lseq
                              ELSE fseq[parent'[c]]
                /\ chan'[c] = <<>>
                /\ applied'[c] = <<>>
         ]_vars

C7_Witness ==
    \E c \in Followers :
        /\ Alive(c) /\ parent[c] # LeaderId /\ Alive(parent[c])
        /\ start[c][2] = 1
        /\ start[c][3] = 2
        /\ chan[c] # <<>>

\* C8: a refresh() step applies every update queued in the Follower's channel
\* at the call, in queue order, leaves the channel empty and returns Empty
\* or Disconnected.
C8_RefreshDrains ==
    [][ \A f \in Followers :
            Refresh(f) =>
                /\ chan'[f] = <<>>
                /\ applied'[f] = applied[f] \o chan[f]
                /\ last'.n = Len(chan[f])
                /\ last'.ret \in {"Empty", "Disconnected"}
      ]_vars

C8_Witness ==
    \E f \in Followers :
        /\ Returned("refresh", f)
        /\ last.n = 2
        /\ chan[f] = <<>>

\* C9 as stated: a refresh_blocking() call that applied at least one update
\* returns Ok.
C9_AppliedMeansOk ==
    (last.op = "refresh_blocking" /\ last.n >= 1) => last.ret = "Ok"

\* C9 as amended: refresh_blocking() returns Err exactly when the upstream
\* is disconnected when it returns, with nothing left in the channel; this
\* includes calls that applied updates before finding the upstream
\* disconnected.  It returns Ok only after applying at least one update.
C9_ErrIffDisconnected ==
    \A f \in Followers :
        Returned("refresh_blocking", f) =>
            /\ chan[f] = <<>>
            /\ (last.ret = "Err") <=> ~TxAlive(f)
            /\ (last.ret = "Ok") => last.n >= 1

C9_Witness ==
    \E f \in Followers :
        /\ Returned("refresh_blocking", f)
        /\ last.ret = "Err"
        /\ last.n >= 1
        /\ fseq[f] = lseq

\* C10: a Leader update leaves in the subscriber Vec exactly the subscribers
\* whose Follower is alive, in their order, sends the stamped update to each
\* of them and returns the new seq.
C10_Prune ==
    [][ \A u \in Vals :
            LeaderUpdate(u) =>
                /\ lsubs' = SelectSeq(lsubs, RecvAlive)
                /\ \A c \in Followers :
                       chan'[c] = IF Alive(c) /\ c \in Range(lsubs)
                                  THEN Append(chan[c], <<u, lseq'>>)
                                  ELSE chan[c]
                /\ last'.ret = "seq"
                /\ last'.n = lseq'
      ]_vars

C10_Witness ==
    /\ last.op = "update"
    /\ last.pruned >= 2

\* C11: a new Leader has seq 0; the k-th update raises the Leader's seq from
\* k - 1 to k, returns k, and every message it queues is stamped with k.
C11_SeqCounts ==
    /\ [](lseq = Len(lapplied))
    /\ [][ \A u \in Vals :
            LeaderUpdate(u) =>
                /\ lseq' = lseq + 1
                /\ last'.n = lseq + 1
                /\ \A c \in Followers :
                       chan'[c] # chan[c] =>
                           chan'[c] = Append(chan[c], <<u, lseq + 1>>)
         ]_vars

C11_Witness ==
    \E f \in Followers :
        /\ Direct(f)
        /\ last.op = "update"
        /\ last.n = 2
        /\ Len(chan[f]) = 2
        /\ chan[f][2][2] = 2

\* C13: a Follower whose channel is empty and whose upstream is gone (the
\* state in which refresh() returns Disconnected) stays so for as long as it
\* lives: its replica and seq no longer change, every refresh() returns
\* Disconnected and every refresh_blocking() returns Err without blocking.
Disconnected(f) == Alive(f) /\ chan[f] = <<>> /\ ~TxAlive(f)

C13_Terminal ==
    /\ [](\A f \in Followers :
            (Returned("refresh", f) /\ last.ret = "Disconnected")
                => Disconnected(f))
    /\ [][ \A f \in Followers :
            (Disconnected(f) /\ Alive(f)') =>
                /\ Disconnected(f)'
                /\ fstate'[f] = fstate[f]
                /\ fseq'[f] = fseq[f]
                /\ pc[f] = "idle" => pc'[f] = "idle"
                /\ Refresh(f) => last'.ret = "Disconnected"
                /\ RefreshBlocking(f) => last'.ret = "Err"
         ]_vars

C13_Witness ==
    \E f \in Followers :
        /\ Disconnected(f)
        /\ Returned("refresh_blocking", f)
        /\ last.ret = "Err"
        /\ last.n = 0
        /\ fseq[f] >= 1

\* C16: the messages queued in a live Follower's channel carry the seqs
\* seq + 1, seq + 2, ... and the updates it has applied carry the seqs that
\* follow the seq it started with, so every applied update raises its seq
\* by exactly 1.
C16_NoSkip ==
    \A f \in Followers :
        Alive(f) =>
            /\ \A i \in 1..Len(chan[f]) : chan[f][i][2] = fseq[f] + i
            /\ \A k \in 1..Len(applied[f]) : applied[f][k][2] = start[f][2] + k
            /\ fseq[f] = start[f][2] + Len(applied[f])

C16_Witness ==
    \E f \in Followers :
        /\ Alive(f) /\ parent[f] # LeaderId
        /\ start[f][2] = 1
        /\ Len(applied[f]) = 1
        /\ fseq[f] = 2

\* C17: no pending waiter has a target <= its Follower's seq, and none has
\* been pulsed; signal_at(t) with t <= seq pulses the new signal at once
\* and with t > seq leaves it pending; one refresh releases every waiter
\* the applied updates satisfy.
C17_Waiters ==
    /\ [](\A f \in Followers : \A i \in 1..Len(waiters[f]) :
            /\ waiters[f][i][2] > fseq[f]
            /\ pulses[waiters[f][i][1]] = 0)
    /\ [][ \A f \in Followers : \A n \in 1..MaxSeq :
            SignalAt(f, n) =>
                /\ (n <= fseq[f]) =>
                       (pulses'[nsig'] = 1 /\ waiters'[f] = waiters[f])
                /\ (n > fseq[f]) =>
                       (pulses'[nsig'] = 0
                        /\ waiters'[f] = Append(waiters[f], <<nsig', n>>))
         ]_vars

C17_Witness ==
    \E f \in Followers :
        /\ Alive(f)
        /\ last.op \in {"refresh", "refresh_blocking"}
        /\ last.f = f
        /\ last.n = 1
        /\ last.pulsed = 2
        /\ waiters[f] = <<>>

\* the Leader's state after its first k updates
RECURSIVE StateAfter(_, _)
StateAfter(log, k) ==
    IF k = 0 THEN InitState ELSE UpdApply(log[k][1], StateAfter(log, k - 1))

\* C18: every live Follower, at any relay depth, holds the state the Leader
\* had when the Leader's seq was the Follower's seq.
C18_PrefixConsistent ==
    \A f \in Followers :
        Alive(f) =>
            /\ fseq[f] <= Len(lapplied)
            /\ fstate[f] = StateAfter(lapplied, fseq[f])

C18_Witness ==
    \E f \in Followers :
        /\ Alive(f) /\ parent[f] # LeaderId
        /\ fseq[f] = 1
        /\ lseq = 2
        /\ fstate[f] # lstate
        /\ fstate[f] # InitState

\* C19: when a refresh()/refresh_blocking() of a Follower obtained from
\* Leader::follow returns after the Leader was dropped, it reports the
\* disconnection only with every update the Leader sent applied: the
\* channel is empty and the Follower holds the Leader's final state and seq.
C19_DrainBeforeDisconnect ==
    \A f \in Followers :
        ( /\ ~lalive /\ Direct(f)
          /\ last.op \in {"refresh", "refresh_blocking"} /\ last.f = f )
            => /\ last.ret \in {"Disconnected", "Err"}
               /\ chan[f] = <<>>
               /\ fstate[f] = lstate
               /\ fseq[f] = lseq

C19_Witness ==
    \E f \in Followers :
        /\ ~lalive /\ Direct(f)
        /\ Returned("refresh", f)
        /\ last.ret = "Disconnected"
        /\ last.n = 2
        /\ fseq[f] = 2

\* C20: a live relay child whose parent Follower was dropped
Orphan(c) ==
    Alive(c) /\ parent[c] # LeaderId /\ status[parent[c]] = "dropped"

MaxOf(a, b) == IF a >= b THEN a ELSE b

\* the highest seq c holds or has queued
Reach(c) ==
    IF chan[c] = <<>> THEN fseq[c] ELSE MaxOf(fseq[c], chan[c][Len(chan[c])][2])

\* C20: when a Follower is dropped, each live relay child holds and has
\* queued only seqs up to the seq the parent had; from then on the child's
\* channel never receives anything, so its seq stays within that, whatever
\* the Leader does; its refresh() drains the queue and returns Disconnected
\* while the Leader may still be alive.
C20_RelayDrop ==
    /\ [](\A c \in Followers :
            (Orphan(c) /\ Returned("refresh", c))
                => (last.ret = "Disconnected" /\ chan[c] = <<>>))
    /\ [][ \A c \in Followers :
            /\ \A p \in Followers :
                 (DropFollower(p) /\ Alive(c) /\ parent[c] = p)
                     => (Reach(c) <= fseq[p] /\ Orphan(c)')
            /\ (Orphan(c) /\ Alive(c)') =>
                 /\ Orphan(c)'
                 /\ Len(chan'[c]) <= Len(chan[c])
                 /\ Reach(c)' <= Reach(c)
         ]_vars

C20_Witness ==
    \E c \in Followers :
        /\ Orphan(c)
        /\ lalive
        /\ Returned("refresh", c)
        /\ last.ret = "Disconnected"
        /\ last.n = 1
        /\ fseq[c] = 1
        /\ lseq = 2

\* C12: a refresh_blocking() call made on an empty, connected channel does
\* not return in that step (the caller is blocked); a blocked call returns
\* only once a message is queued or the upstream is gone; when it returns
\* with messages queued it has applied all of them, so a Follower obtained
\* from Leader::follow then reads the Leader's value; and a blocked call
\* with a message queued does return, whether or not the Leader was
\* dropped after its update.
C12_BlockingSafety ==
    [][ \A f \in Followers :
            /\ (Idle(f) /\ chan[f] = <<>> /\ TxAlive(f) /\ RefreshBlocking(f))
                   => /\ pc'[f] = "blocked"
                      /\ last' = last
                      /\ <<fstate[f], fseq[f]>>' = <<fstate[f], fseq[f]>>
            /\ (pc[f] = "blocked" /\ pc'[f] = "idle")
                   => /\ chan[f] # <<>> \/ ~TxAlive(f)
                      /\ chan'[f] = <<>>
                      /\ applied'[f] = applied[f] \o chan[f]
                      /\ last'.op = "refresh_blocking" /\ last'.f = f
                      /\ (chan[f] # <<>> /\ parent[f] = LeaderId)
                             => (fstate'[f] = lstate /\ fseq'[f] = lseq)
      ]_vars

C12_BlockingRefresh ==
    /\ C12_BlockingSafety
    /\ \A f \in Followers :
            (pc[f] = "blocked" /\ chan[f] # <<>>)
                ~> (pc[f] = "idle" /\ chan[f] = <<>>)

C12_Witness ==
    \E f \in Followers :
        /\ Direct(f)
        /\ pc[f] = "blocked"
        /\ chan[f] # <<>>
        /\ ~lalive
        /\ fstate[f] # lstate

C15_DoubleBuffer ==
    /\ \A r \in Readers :
           rpc[r] = "reading" =>
               /\ robs[r][1] = robs[r][2]
               /\ \E k \in rspan[r][1]..(rspan[r][2]) : robs[r] = dbvals[k]
    /\ wpc = "idle" => \A i \in Slots : slot[i] = DbLatest

C15_Witness ==
    \E r1, r2 \in Readers :
        /\ wpc = "lock" /\ wpass = 2
        /\ rpc[r1] = "reading" /\ rpc[r2] = "reading"
        /\ rspan[r1] = <<1, 2>> /\ rspan[r2] = <<1, 2>>
        /\ robs[r1] = dbvals[1]
        /\ robs[r2] = dbvals[2]
        /\ dbvals[1] # dbvals[2]
====
